---- MODULE Spec2Model ----
(***************************************************************************)
(* Model of the book catalog router (src/routes/books.js).                 *)
(*                                                                         *)
(* Text values are sequences of one-character strings (<<"9","7">>), so    *)
(* that the digits-only test of /detail and the ordering of titles are     *)
(* computed and not assumed.  A JavaScript object is a sequence of         *)
(* <<key, value>> entries in insertion order with distinct keys.  A value  *)
(* that may be undefined is an option: <<>> or <<v>>.                      *)
(***************************************************************************)
EXTENDS Integers, Sequences, FiniteSets, TLC

VARIABLES books, nextId, now, nEdits, req, res, pc, snap, ebody, eres, dres, tick, loadAt, writeAt, goneAtWrite

vars == <<books, nextId, now, nEdits, req, res, pc, snap, ebody, eres, dres, tick, loadAt, writeAt, goneAtWrite>>

seqVars == <<books, nextId, now, nEdits, req, res>>

concVars == <<pc, snap, ebody, eres, dres, tick, loadAt, writeAt, goneAtWrite>>

\* ---------------------------------------------------------------- bounds

MaxAdds == 2

MaxEdits == 1

\* ------------------------------------------------------- JavaScript objects

Keys(o) == {o[i][1] : i \in DOMAIN o}

Has(o, k) == k \in Keys(o)

Val(o, k) == o[CHOOSE i \in DOMAIN o : o[i][1] = k][2]

\* o.k, undefined when the key is missing
Get(o, k) == IF Has(o, k) THEN <<Val(o, k)>> ELSE <<>>

\* o.k = v: an existing key keeps its position, a new key is appended
SetKey(o, k, v) ==
    IF Has(o, k)
    THEN [i \in DOMAIN o |-> IF o[i][1] = k THEN <<k, v>> ELSE o[i]]
    ELSE Append(o, <<k, v>>)

RECURSIVE Spread(_, _)
\* { ...a, ...b }
Spread(a, b) ==
    IF Len(b) = 0 THEN a
    ELSE Spread(SetKey(a, b[1][1], b[1][2]), Tail(b))

\* the object literal { k1, k2, ... } built from destructured variables:
\* every key is there, some with the value undefined
ObjLit(o, keys) == [i \in DOMAIN keys |-> <<keys[i], Get(o, keys[i])>>]

\* an object whose values are all defined, in the shape ObjLit produces
Defined(o) == [i \in DOMAIN o |-> <<o[i][1], <<o[i][2]>>>>]

RECURSIVE DefinedEntries(_)
\* the entries whose value is not undefined, unwrapped, in insertion order
DefinedEntries(o) ==
    IF Len(o) = 0 THEN <<>>
    ELSE IF o[1][2] = <<>> THEN DefinedEntries(Tail(o))
         ELSE << <<o[1][1], o[1][2][1]>> >> \o DefinedEntries(Tail(o))

\* JSON.stringify of an object: the text lists the entries in insertion
\* order and leaves out the ones whose value is undefined
JSONstringify(o) == [json |-> DefinedEntries(o)]

\* QRCode.toDataURL on success: a data URL that determines its input
toDataURL(text) == [mime |-> "image/png", data |-> text]

\* ------------------------------------------------------------- the schema

QRFields == <<"title", "author", "publisher", "exam", "subject",
              "description", "price", "language", "isbn", "publicationDate">>

fieldsForQRCode == {QRFields[i] : i \in DOMAIN QRFields}

RequiredFields == <<"title", "author", "publisher", "isbn">>

\* paths of the Book schema; an update drops every other key
SchemaPaths == fieldsForQRCode \cup {"qrCode", "addedDate"}

\* store-assigned identifiers; nothing keeps one from being digits only
DigitChars == <<"0", "1", "2", "3", "4", "5", "6", "7", "8", "9">>

Id(n) == IF n % 2 = 1 THEN <<"a", DigitChars[(n % 10) + 1]>>
         ELSE <<DigitChars[(n % 10) + 1]>>

\* ------------------------------------------------------------- the store

RECURSIVE FindFirst(_, _, _)
\* Book.findOne({ [field]: v }): the first match in store order, or null
FindFirst(bs, field, v) ==
    IF Len(bs) = 0 THEN <<>>
    ELSE IF Has(bs[1], field) /\ Val(bs[1], field) = v THEN <<bs[1]>>
         ELSE FindFirst(Tail(bs), field, v)

FindById(bs, id) == FindFirst(bs, "_id", id)

RECURSIVE Without(_, _)
Without(bs, id) ==
    IF Len(bs) = 0 THEN <<>>
    ELSE IF Val(bs[1], "_id") = id THEN Without(Tail(bs), id)
         ELSE <<bs[1]>> \o Without(Tail(bs), id)

\* Book.findByIdAndDelete(id): the store afterwards
FindByIdAndDelete(bs, id) == Without(bs, id)

RECURSIVE StrictCast(_)
\* the keys of an update that are schema paths
StrictCast(upd) ==
    IF Len(upd) = 0 THEN <<>>
    ELSE IF upd[1][1] \in SchemaPaths THEN <<upd[1]>> \o StrictCast(Tail(upd))
         ELSE StrictCast(Tail(upd))

\* Book.findByIdAndUpdate(id, upd, { new: true }): the store afterwards
FindByIdAndUpdate(bs, id, upd) ==
    [i \in DOMAIN bs |->
        IF Val(bs[i], "_id") = id THEN Spread(bs[i], StrictCast(upd)) ELSE bs[i]]

\* ------------------------------------------------------------- ordering

Code(c) == CASE c = "A" -> 65 [] c = "B" -> 66 [] c = "C" -> 67 [] OTHER -> 0

RECURSIVE StrLeq(_, _)
\* binary string order
StrLeq(a, b) ==
    IF Len(a) = 0 THEN TRUE
    ELSE IF Len(b) = 0 THEN FALSE
    ELSE IF Code(a[1]) < Code(b[1]) THEN TRUE
    ELSE IF Code(a[1]) > Code(b[1]) THEN FALSE
    ELSE StrLeq(Tail(a), Tail(b))

Leq(field, a, b) == IF field = "addedDate" THEN a <= b ELSE StrLeq(a, b)

\* is the sequence out ordered by field, dir = 1 ascending, -1 descending
Ordered(out, field, dir) ==
    \A i, j \in DOMAIN out :
        i < j => IF dir = 1
                 THEN Leq(field, Val(out[i], field), Val(out[j], field))
                 ELSE Leq(field, Val(out[j], field), Val(out[i], field))

Perms(n) == {f \in [1..n -> 1..n] : \A i, j \in 1..n : f[i] = f[j] => i = j}

\* Book.find().sort({ [field]: dir }): the orders the store may answer with
\* (ties in any order)
SortedResults(bs, field, dir) ==
    {out \in {[i \in DOMAIN bs |-> bs[f[i]]] : f \in Perms(Len(bs))} :
        Ordered(out, field, dir)}

\* ------------------------------------------------- the handlers' parts

\* !v for a text value that may be undefined
Falsy(o) == o = <<>> \/ Len(o[1]) = 0

\* the check with the isbn test forgotten
MissingRequired_NoIsbn(body) ==
    \E i \in 1..3 : Falsy(Get(body, RequiredFields[i]))

\* !title || !author || !publisher || !isbn
MissingRequired(body) ==
    \E i \in DOMAIN RequiredFields : Falsy(Get(body, RequiredFields[i]))

\* the text POST /add encodes
AddQrData(body) == JSONstringify(ObjLit(body, QRFields))

\* new Book({ ...ten fields, qrCode, addedDate }) once saved
NewBook(body, id, qrCode, date) ==
    << <<"_id", id>> >> \o DefinedEntries(ObjLit(body, QRFields))
        \o << <<"qrCode", qrCode>>, <<"addedDate", date>>, <<"__v", 0>> >>

ValidSortField(sortBy) == sortBy \in {"addedDate", "title"}

ValidSortOrder(order) == order \in {"asc", "desc"}

\* the two directions swapped
SortDir_Flipped(order) == IF order = "asc" THEN -1 ELSE 1

\* order === 'asc' ? 1 : -1
SortDir(order) == IF order = "asc" THEN 1 ELSE -1

\* the pattern without its anchors, /[0-9]+/
IsNumeric_Unanchored(key) ==
    \E i \in DOMAIN key : \E d \in DOMAIN DigitChars : key[i] = DigitChars[d]

\* idOrIsbn.match(/^[0-9]+$/)
IsNumeric(key) ==
    /\ Len(key) > 0
    /\ \A i \in DOMAIN key : \E d \in DOMAIN DigitChars : key[i] = DigitChars[d]

\* the query of GET /detail: <<field, value>>
DetailQuery(key) == IF IsNumeric(key) THEN <<"isbn", key>> ELSE <<"_id", key>>

\* price missing from the list of fields that trigger a new code
shouldUpdateQRCode_NoPrice(updatedDetails) ==
    \E k \in Keys(updatedDetails) : k \in fieldsForQRCode \ {"price"}

\* Object.keys(updatedDetails).some(field => fieldsForQRCode.includes(field))
shouldUpdateQRCode(updatedDetails) ==
    \E k \in Keys(updatedDetails) : k \in fieldsForQRCode

\* the loaded record encoded without the submitted fields merged over it
EditQrData_NoMerge(book, updatedDetails) == JSONstringify(Defined(book))

\* the text PUT /edit encodes: JSON.stringify({ ...book.toObject(), ...updatedDetails })
EditQrData(book, updatedDetails) ==
    JSONstringify(Defined(Spread(book, updatedDetails)))

\* updatedDetails as handed to the store: with the new qrCode when one is made
EditUpdate(book, updatedDetails) ==
    IF shouldUpdateQRCode(updatedDetails)
    THEN SetKey(updatedDetails, "qrCode", toDataURL(EditQrData(book, updatedDetails)))
    ELSE updatedDetails

\* the null check on the deleted book forgotten
DeleteStatus_NoNullCheck(book) == 200

\* status of DELETE /delete/:id from what findByIdAndDelete returned
DeleteStatus(book) == IF book = <<>> THEN 404 ELSE 200

Response(status, text, body, encoded) ==
    [status |-> status, text |-> text, body |-> body, encoded |-> encoded]

Request(op, id, body, sortBy, order) ==
    [op |-> op, id |-> id, body |-> body, sortBy |-> sortBy, order |-> order]

\* ------------------------------------------------------------- the inputs

Str(c) == <<c>>

Isbn2 == <<"2">>

Isbn97 == <<"9", "7">>

GoodBodies ==
    { << <<"title", Str("B")>>, <<"author", Str("x")>>, <<"publisher", Str("p")>>,
         <<"price", 10>>, <<"isbn", Isbn2>> >>,
      << <<"title", Str("A")>>, <<"author", Str("x")>>, <<"publisher", Str("p")>>,
         <<"price", 10>>, <<"isbn", Isbn97>> >> }

RECURSIVE DropKey(_, _)
DropKey(o, k) ==
    IF Len(o) = 0 THEN <<>>
    ELSE IF o[1][1] = k THEN DropKey(Tail(o), k)
         ELSE <<o[1]>> \o DropKey(Tail(o), k)

\* a good body with one required field left out or empty
BadBodies ==
    LET g == << <<"title", Str("B")>>, <<"author", Str("x")>>,
                <<"publisher", Str("p")>>, <<"price", 10>>, <<"isbn", Isbn2>> >>
    IN  {DropKey(g, RequiredFields[i]) : i \in DOMAIN RequiredFields}
          \cup {SetKey(g, RequiredFields[i], <<>>) : i \in DOMAIN RequiredFields}

AddBodies == GoodBodies \cup BadBodies

\* a data URL that is not the record's own
ForgedQr == toDataURL(JSONstringify(<<>>))

EditBodies ==
    { << <<"price", 20>> >>,
      << <<"title", Str("C")>> >>,
      << <<"qrCode", ForgedQr>> >>,
      << <<"addedDate", 0>> >>,
      << <<"foo", Str("z")>> >> }

Ids == {Id(n) : n \in 1..MaxAdds}

DetailKeys == Ids \cup {Isbn2, Isbn97}

SortFields == {"addedDate", "title", "year"}

SortOrders == {"asc", "desc", "up"}

NoStr == <<>>

\* ------------------------------------------- the requests, one at a time

Init ==
    /\ books = <<>>
    /\ nextId = 1
    /\ now = 1
    /\ nEdits = 0
    /\ req = Request("none", NoStr, <<>>, "", "")
    /\ res = Response(0, "", <<>>, FALSE)
    /\ pc = <<>>
    /\ snap = <<>>
    /\ ebody = <<>>
    /\ eres = <<>>
    /\ dres = 0
    /\ tick = 0
    /\ loadAt = <<>>
    /\ writeAt = <<>>
    /\ goneAtWrite = <<>>

\* POST /add
Add(body, encOk) ==
    /\ req' = Request("add", NoStr, body, "", "")
    /\ IF MissingRequired(body)
       THEN /\ res' = Response(400, "Title, author, publisher, and ISBN are required.", <<>>, FALSE)
            /\ UNCHANGED <<books, nextId, now>>
       ELSE IF ~encOk
       THEN /\ res' = Response(500, "Error adding book", <<>>, TRUE)
            /\ UNCHANGED <<books, nextId, now>>
       ELSE /\ nextId <= MaxAdds
            /\ LET book == NewBook(body, Id(nextId), toDataURL(AddQrData(body)), now)
               IN  /\ books' = Append(books, book)
                   /\ res' = Response(201, "", <<book>>, TRUE)
            /\ nextId' = nextId + 1
            /\ now' = now + 1
    /\ UNCHANGED nEdits
    /\ UNCHANGED concVars

\* GET /
List ==
    /\ req' = Request("list", NoStr, <<>>, "", "")
    /\ res' = Response(200, "", books, FALSE)
    /\ UNCHANGED <<books, nextId, now, nEdits>>
    /\ UNCHANGED concVars

\* GET /sort
ListSorted(sortBy, order) ==
    /\ req' = Request("sort", NoStr, <<>>, sortBy, order)
    /\ IF ~ValidSortField(sortBy)
       THEN res' = Response(400, "Invalid sort field", <<>>, FALSE)
       ELSE IF ~ValidSortOrder(order)
       THEN res' = Response(400, "Invalid sort order", <<>>, FALSE)
       ELSE \E out \in SortedResults(books, sortBy, SortDir(order)) :
                res' = Response(200, "", out, FALSE)
    /\ UNCHANGED <<books, nextId, now, nEdits>>
    /\ UNCHANGED concVars

\* GET /detail/:idOrIsbn
Detail(idOrIsbn) ==
    /\ req' = Request("detail", idOrIsbn, <<>>, "", "")
    /\ LET query == DetailQuery(idOrIsbn)
           book == FindFirst(books, query[1], query[2])
       IN  IF book = <<>>
           THEN res' = Response(404, "Book not found", <<>>, FALSE)
           ELSE res' = Response(200, "", book, FALSE)
    /\ UNCHANGED <<books, nextId, now, nEdits>>
    /\ UNCHANGED concVars

\* DELETE /delete/:id
Delete(id) ==
    /\ req' = Request("delete", id, <<>>, "", "")
    /\ LET book == FindById(books, id)
       IN  IF DeleteStatus(book) = 404
           THEN res' = Response(404, "Book not found", <<>>, FALSE)
           ELSE res' = Response(200, "Book deleted successfully", <<>>, FALSE)
    /\ books' = FindByIdAndDelete(books, id)
    /\ UNCHANGED <<nextId, now, nEdits>>
    /\ UNCHANGED concVars

\* PUT /edit/:id
Edit(id, updatedDetails, encOk) ==
    /\ req' = Request("edit", id, updatedDetails, "", "")
    /\ LET book == FindById(books, id)
       IN  IF book = <<>>
           THEN /\ res' = Response(404, "Book not found", <<>>, FALSE)
                /\ UNCHANGED <<books, nEdits>>
           ELSE IF shouldUpdateQRCode(updatedDetails) /\ ~encOk
           THEN /\ res' = Response(500, "Error editing book", <<>>, TRUE)
                /\ UNCHANGED <<books, nEdits>>
           ELSE /\ nEdits < MaxEdits
                /\ books' = FindByIdAndUpdate(books, id, EditUpdate(book[1], updatedDetails))
                /\ res' = Response(200, "", FindById(books', id),
                                   shouldUpdateQRCode(updatedDetails))
                /\ nEdits' = nEdits + 1
    /\ UNCHANGED <<nextId, now>>
    /\ UNCHANGED concVars

Next ==
    \/ \E body \in AddBodies, encOk \in BOOLEAN : Add(body, encOk)
    \/ List
    \/ \E sortBy \in SortFields, order \in SortOrders : ListSorted(sortBy, order)
    \/ \E key \in DetailKeys : Detail(key)
    \/ \E id \in Ids : Delete(id)
    \/ \E id \in Ids, body \in EditBodies, encOk \in BOOLEAN : Edit(id, body, encOk)

Spec == Init /\ [][Next]_vars

\* ------------------------------- PUT /edit and DELETE /delete interleaved
\* Two edit requests and one delete request on the same id run concurrently.
\* A handler yields at each await: an edit between findById and
\* findByIdAndUpdate, so that the other requests' store calls can fall in
\* between.

Procs == {1, 2}

TargetId == Id(1)

ConcBodies ==
    { << <<"title", Str("C")>> >>,
      << <<"author", Str("y")>> >>,
      << <<"addedDate", 0>> >> }

\* the store after one successful POST /add
InitConc ==
    /\ \E body \in GoodBodies :
          LET book == NewBook(body, Id(1), toDataURL(AddQrData(body)), 1)
          IN  /\ books = <<book>>
              /\ req = Request("add", NoStr, body, "", "")
              /\ res = Response(201, "", <<book>>, TRUE)
    /\ nextId = 2
    /\ now = 2
    /\ nEdits = 0
    /\ pc = [p \in Procs |-> "start"]
    /\ snap = [p \in Procs |-> <<>>]
    /\ ebody = [p \in Procs |-> <<>>]
    /\ eres = [p \in Procs |-> Response(0, "", <<>>, FALSE)]
    /\ dres = 0
    /\ tick = 0
    /\ loadAt = [p \in Procs |-> 0]
    /\ writeAt = [p \in Procs |-> 0]
    /\ goneAtWrite = [p \in Procs |-> FALSE]

\* PUT /edit/:id up to its second await: findById, the null check, the
\* decision to make a new code and the encoder call
EditLoad(p, updatedDetails, encOk) ==
    /\ pc[p] = "start"
    /\ tick' = tick + 1
    /\ loadAt' = [loadAt EXCEPT ![p] = tick + 1]
    /\ ebody' = [ebody EXCEPT ![p] = updatedDetails]
    /\ LET book == FindById(books, TargetId)
       IN  IF book = <<>>
           THEN /\ eres' = [eres EXCEPT ![p] = Response(404, "Book not found", <<>>, FALSE)]
                /\ pc' = [pc EXCEPT ![p] = "done"]
                /\ UNCHANGED snap
           ELSE IF shouldUpdateQRCode(updatedDetails) /\ ~encOk
           THEN /\ eres' = [eres EXCEPT ![p] = Response(500, "Error editing book", <<>>, TRUE)]
                /\ pc' = [pc EXCEPT ![p] = "done"]
                /\ UNCHANGED snap
           ELSE /\ snap' = [snap EXCEPT ![p] = book]
                /\ pc' = [pc EXCEPT ![p] = "loaded"]
                /\ UNCHANGED eres
    /\ UNCHANGED <<writeAt, goneAtWrite, dres>>
    /\ UNCHANGED seqVars

\* PUT /edit/:id from findByIdAndUpdate to the response
EditWrite(p) ==
    /\ pc[p] = "loaded"
    /\ tick' = tick + 1
    /\ writeAt' = [writeAt EXCEPT ![p] = tick + 1]
    /\ goneAtWrite' = [goneAtWrite EXCEPT ![p] = (FindById(books, TargetId) = <<>>)]
    /\ books' = FindByIdAndUpdate(books, TargetId, EditUpdate(snap[p][1], ebody[p]))
    /\ eres' = [eres EXCEPT ![p] = Response(200, "", FindById(books', TargetId),
                                            shouldUpdateQRCode(ebody[p]))]
    /\ pc' = [pc EXCEPT ![p] = "done"]
    /\ UNCHANGED <<snap, ebody, loadAt, dres>>
    /\ UNCHANGED <<nextId, now, nEdits, req, res>>

\* DELETE /delete/:id, whole
DeleteReq ==
    /\ dres = 0
    /\ tick' = tick + 1
    /\ dres' = DeleteStatus(FindById(books, TargetId))
    /\ books' = FindByIdAndDelete(books, TargetId)
    /\ UNCHANGED <<pc, snap, ebody, eres, loadAt, writeAt, goneAtWrite>>
    /\ UNCHANGED <<nextId, now, nEdits, req, res>>

NextConc ==
    \/ \E p \in Procs, body \in ConcBodies, encOk \in BOOLEAN : EditLoad(p, body, encOk)
    \/ \E p \in Procs : EditWrite(p)
    \/ DeleteReq

SpecConc == InitConc /\ [][NextConc]_vars

\* ------------------------------------------------- properties, one at a time

QrOf(doc) == Val(doc, "qrCode")

\* the stored record with this id (there is one)
Stored(bs, id) == FindById(bs, id)[1]

Exists(bs, id) == \E i \in DOMAIN bs : Val(bs[i], "_id") = id

\* the code of the ten fields as the record stores them
CanonicalQr(doc) == toDataURL(JSONstringify(ObjLit(doc, QRFields)))

\* C1: every stored record's qrCode is the encoding of the serialization of
\* exactly its ten descriptive fields with their stored values
C1_QrIsCodeOfStoredFields ==
    \A i \in DOMAIN books : QrOf(books[i]) = CanonicalQr(books[i])

LacksRequired(body) ==
    \E f \in {"title", "author", "publisher", "isbn"} :
        ~Has(body, f) \/ Val(body, f) = <<>>

\* C2: an add with a required field missing or empty answers 400, leaves the
\* store as it was and does not call the encoder
C2_InvalidAddRejected ==
    [][(req'.op = "add" /\ LacksRequired(req'.body))
         => /\ res'.status = 400
            /\ books' = books
            /\ nextId' = nextId
            /\ ~res'.encoded]_vars

C2_Witness ==
    /\ req.op = "add"
    /\ ~Has(req.body, "isbn")
    /\ res.status = 400
    /\ Len(books) > 0

PriceOnlyEdit(r, bs) ==
    /\ r.op = "edit"
    /\ Keys(r.body) = {"price"}
    /\ Exists(bs, r.id)

\* C3 as first stated: an edit that submits only price leaves qrCode as it was
C3_PriceEditKeepsQr ==
    [][PriceOnlyEdit(req', books)
         => QrOf(Stored(books', req'.id)) = QrOf(Stored(books, req'.id))]_vars

\* C3: a successful edit that submits only price stores a new qrCode, the
\* encoding of the loaded record merged with the submitted price, and the
\* stored price is the submitted one
C3_PriceEditRegeneratesQr ==
    [][(PriceOnlyEdit(req', books) /\ res'.status = 200)
         => LET old == Stored(books, req'.id)
                new == Stored(books', req'.id)
            IN  /\ QrOf(new) = toDataURL(JSONstringify(Defined(Spread(old, req'.body))))
                /\ QrOf(new) # QrOf(old)
                /\ Val(new, "price") = Val(req'.body, "price")
                /\ Val(QrOf(new).data.json, "price") = Val(new, "price")]_vars

C3_Witness ==
    /\ req.op = "edit"
    /\ Keys(req.body) = {"price"}
    /\ res.status = 200
    /\ Val(res.body[1], "price") = 20

\* C4: an edit whose keys include no QR-relevant field name leaves the stored
\* qrCode as it was
C4_NonQrEditKeepsQr ==
    [][(/\ req'.op = "edit"
        /\ Exists(books, req'.id)
        /\ Keys(req'.body) \cap {QRFields[i] : i \in DOMAIN QRFields} = {})
         => QrOf(Stored(books', req'.id)) = QrOf(Stored(books, req'.id))]_vars

\* C5: a delete answers 200 exactly when the id is stored, and then removes
\* that record and no other; otherwise it answers 404 and the store is as it
\* was; a second delete of the same id right after a successful one answers 404
C5_DeleteExactlyExisting ==
    [][req'.op = "delete"
         => /\ res'.status = 200 <=> Exists(books, req'.id)
            /\ res'.status = 404 <=> ~Exists(books, req'.id)
            /\ res'.status = 200 =>
                 /\ ~Exists(books', req'.id)
                 /\ Len(books') = Len(books) - 1
                 /\ \A i \in DOMAIN books :
                       Val(books[i], "_id") # req'.id
                          => \E j \in DOMAIN books' : books'[j] = books[i]
            /\ res'.status = 404 => books' = books
            /\ (req.op = "delete" /\ req.id = req'.id /\ res.status = 200)
                 => res'.status = 404]_vars

C5_Witness ==
    /\ req.op = "delete"
    /\ res.status = 404
    /\ \E n \in 1..(nextId - 1) : Id(n) = req.id
    /\ Len(books) > 0

OnlyDigits(key) ==
    /\ key # <<>>
    /\ \A i \in DOMAIN key :
          key[i] \in {"0", "1", "2", "3", "4", "5", "6", "7", "8", "9"}

Matches(bs, key) ==
    IF OnlyDigits(key)
    THEN {i \in DOMAIN bs : Has(bs[i], "isbn") /\ Val(bs[i], "isbn") = key}
    ELSE {i \in DOMAIN bs : Val(bs[i], "_id") = key}

BadSort(r) ==
    \/ r.sortBy \notin {"addedDate", "title"}
    \/ r.order \notin {"asc", "desc"}

\* C7: a sort answers 400 exactly when sortBy or order is outside its set;
\* otherwise it answers every stored record once, non-decreasing in the sort
\* field for asc and non-increasing for desc; the store is unchanged
C7_SortedListing ==
    [][req'.op = "sort"
         => /\ res'.status = 400 <=> BadSort(req')
            /\ ~BadSort(req') =>
                 /\ res'.status = 200
                 /\ Len(res'.body) = Len(books)
                 /\ \E f \in Perms(Len(books)) :
                       \A i \in DOMAIN books : res'.body[i] = books[f[i]]
                 /\ \A i \in 1..(Len(res'.body) - 1) :
                       LET a == Val(res'.body[i], req'.sortBy)
                           b == Val(res'.body[i + 1], req'.sortBy)
                       IN  IF req'.order = "asc"
                           THEN Leq(req'.sortBy, a, b)
                           ELSE Leq(req'.sortBy, b, a)
            /\ books' = books]_vars

C7_Witness ==
    /\ req.op = "sort"
    /\ req.sortBy = "title"
    /\ res.status = 200
    /\ Len(res.body) >= 2
    /\ res.body # books
    /\ Val(res.body[1], "title") # Val(res.body[2], "title")

\* C8: no edit changes a stored record's addedDate
C8_AddedDateSetOnce ==
    [][req'.op = "edit"
         => \A i \in DOMAIN books :
               /\ i \in DOMAIN books'
               /\ Val(books'[i], "addedDate") = Val(books[i], "addedDate")]_vars

AllDone == \A p \in Procs : pc[p] = "done"

QRFieldSet == {"title", "author", "publisher", "exam", "subject", "description",
               "price", "language", "isbn", "publicationDate"}

\* the text the code was made from carries, for each of the ten fields, the
\* value the record stores
QrAgrees(doc) ==
    LET payload == QrOf(doc).data.json
    IN  \A f \in QRFieldSet :
           /\ Has(doc, f) <=> Has(payload, f)
           /\ Has(doc, f) => Val(payload, f) = Val(doc, f)

\* C9 as first stated: once both edits are done, the stored qrCode carries the
\* stored values of the ten fields
C9_QrNeverStale ==
    (AllDone /\ Exists(books, TargetId)) => QrAgrees(Stored(books, TargetId))

\* the request whose update was applied last
LastWriter(w) ==
    /\ writeAt[w] > 0
    /\ \A q \in Procs : writeAt[q] <= writeAt[w]

\* C9: once both edits are done, if the last applied update came from a
\* request that submitted a QR-relevant field, the stored qrCode is the
\* encoding of the record that request loaded merged with its submitted
\* fields; it carries the stored values when that request loaded after the
\* other one's update
C9_QrFromLastWriter ==
    (AllDone /\ Exists(books, TargetId))
      => \A w \in Procs :
            (LastWriter(w) /\ Keys(ebody[w]) \cap QRFieldSet # {})
              => /\ QrOf(Stored(books, TargetId))
                      = toDataURL(JSONstringify(Defined(Spread(snap[w][1], ebody[w]))))
                 /\ (\A q \in Procs \ {w} : writeAt[q] < loadAt[w])
                      => QrAgrees(Stored(books, TargetId))

C9_Witness ==
    /\ AllDone
    /\ \A p \in Procs : eres[p].status = 200 /\ eres[p].encoded
    /\ Exists(books, TargetId)
    /\ \E w \in Procs : LastWriter(w) /\ \E q \in Procs \ {w} : writeAt[q] > loadAt[w]
    /\ ~QrAgrees(Stored(books, TargetId))

\* C10: an edit ends with 200 and the updated record that is in the store, or
\* 404, or 500; it does not answer 200 when its record was gone at its update
\* step, and a 404 comes with no change of the store
C10_EditOutcome ==
    [][\A p \in Procs :
          (pc[p] # "done" /\ pc'[p] = "done")
            => /\ eres'[p].status \in {200, 404, 500}
               /\ eres'[p].status = 200 =>
                    /\ Exists(books', TargetId)
                    /\ eres'[p].body = <<Stored(books', TargetId)>>
               /\ goneAtWrite'[p] => eres'[p].status # 200
               /\ eres'[p].status = 404 => books' = books]_vars

====
